---- MODULE Spec2Model ----
(***************************************************************************)
(* Zero-downtime restart protocol of robotech-rs: the Signal Manager       *)
(* (robotech/src/signal/signal_manager.rs), the Server Lifecycle           *)
(* Coordinator (src/web/server/web_server_utils.rs) and the PID-file guard *)
(* (src/main_fn/pid_utils.rs), as one new process B started with a         *)
(* start-up instruction next to an old process A (specification Spec).     *)
(* The superseded implementation in src/main_fn (init_signal,              *)
(* send_signal_to_stop, wait_for_process_exit, write_pid and its guard) is *)
(* the specification LocalSpec over the same PID file and old process.     *)
(*                                                                         *)
(* Strings the code parses are sequences of one-character strings.         *)
(* HTTPS is disabled in every modelled configuration.                      *)
(***************************************************************************)
EXTENDS Integers, Sequences, FiniteSets, TLC

VARIABLES
    signal_instruction,   \* the start-up instruction handed to SignalManager::new
    pidFile,              \* content of the PID file: "absent", "malformed" or a pid
    oldProc,              \* old process A: "none", "running", "stopped" (by job control),
                          \* "stopping", "deleting", "dead"
    pc,                   \* position of B's main flow
    old_pid,              \* Option<pid_t>: "None" or a pid (signal_manager.rs:91, web_server_utils.rs:61)
    smResult,             \* what SignalManager::new returned: "none", "Ok" or the error variant
    smErrArg,             \* payload of the returned error
    exitCode,             \* process::exit code: << >> while running, << 0 >> or << 1 >>
    signalsSent,          \* signals B has sent: set of [sig, to, by]
    fileOps,              \* PID-file mutations B has performed: subset of {"write", "delete"}
    watching,             \* watch_signal() has installed the SIGINT/SIGTERM listeners
    channel,              \* the oneshot 'started' channel: "none", "open", "sent", "sender_dropped"
    senderArg,            \* the sender start_web_server was given: "none", "managed", "foreign_closed"
    waiter,               \* SignalManager's background task: "none", "waiting", "acquiring", "done"
    PID_FILE_GUARD,       \* the process-wide guard slot holds Some(guard)
    cfg,                  \* the WebServerConfig and port_of_args start_web_server was called with
    listen_binds,         \* resolved (address, port) pairs
    is_random_port,
    reuse_port,
    support_health_check,
    bindIdx,              \* number of listen_binds already bound
    serverUp,             \* http_server.run() was called and the server has not stopped
    wsResult,             \* what start_web_server returned: "none", "Ok" or the error variant
    ready,                \* position of the readiness task spawned at web_server_utils.rs:184
    healthPolls,          \* failed /health probes so far
    healthOk,             \* a /health probe has returned a success status
    termPolls,            \* liveness polls of the current terminate_process wait
    hist,                 \* what has happened: the pre-bind termination step ran (pre), the
                          \* post-health one ran (post), a bind call was made (bound), a bind
                          \* call was made while the old process was alive (bindWhileOldAlive),
                          \* the processes whose guard release read another process's PID
                          \* and left the file in place (kept)
    retries,              \* wait_for_process_exit's counter (main_fn/signal_utils.rs:123)
    waitResult,           \* what wait_for_process_exit returned: << >>, <<"Ok">>, <<"Err", pid>>
    probe,                \* the last send_signal_to_check: << >> or << [outcome, alive, before, after] >>
    rel,                  \* the releases of the PID-file guards of main_fn: guard -> position
    readyWait,            \* one call of wait_for_web_server_ready: its arguments, the clock,
                          \* the times of its probes and its result
    starter               \* the processes launched with `start` at the same time: pid ->
                          \* [pc, old_pid]

vars == << signal_instruction, pidFile, oldProc, pc, old_pid, smResult, smErrArg,
           exitCode, signalsSent, fileOps, watching, channel, senderArg, waiter,
           PID_FILE_GUARD, cfg, listen_binds, is_random_port, reuse_port,
           support_health_check, bindIdx, serverUp, wsResult, ready, healthPolls,
           healthOk, termPolls, hist, retries, waitResult, probe, rel, readyWait,
           starter >>

----------------------------------------------------------------------------
(* Bounds *)

\* failed /health probes that fit into start_wait_timeout (timeout / retry interval)
MaxHealthPolls == 2
\* liveness polls that fit into terminate_old_wait_timeout
MaxTermPolls == 2
\* number of entries of the `listen` configuration list
MaxListen == 1

OldPid == "pidA"
MyPid == "pidB"

\* the PID-file guards a process of main_fn holds: the one init_signal returns and
\* one more made by a second write_pid()
Guards == {1, 2}

Instructions == {"start", "restart", "stop", "s", "kill", "k", "reload", "bogus"}

----------------------------------------------------------------------------
(* Strings and their parsing *)

Digits == <<"0", "1", "2", "3", "4", "5", "6", "7", "8", "9">>

IsDigit(c) == \E i \in 1..Len(Digits) : Digits[i] = c

DigitVal(c) == (CHOOSE i \in 1..Len(Digits) : Digits[i] = c) - 1

RECURSIVE DecVal(_)
DecVal(d) ==
    IF d = << >> THEN 0
    ELSE 10 * DecVal(SubSeq(d, 1, Len(d) - 1)) + DigitVal(d[Len(d)])

\* str::parse::<u16>(): an optional '+', then one or more decimal digits, value <= 65535
ParseU16(s) ==
    LET d == IF Len(s) > 0 /\ s[1] = "+" THEN Tail(s) ELSE s
    IN  IF Len(d) = 0 \/ (\E i \in 1..Len(d) : ~IsDigit(d[i]))
        THEN [ok |-> FALSE, val |-> 0]
        ELSE IF DecVal(d) > 65535
             THEN [ok |-> FALSE, val |-> 0]
             ELSE [ok |-> TRUE, val |-> DecVal(d)]

\* mutant: the entry is split at its first colon
RSplitN2_FirstColon(s) ==
    LET colons == {i \in 1..Len(s) : s[i] = ":"}
    IN  IF colons = {} THEN << s >>
        ELSE LET i == CHOOSE k \in colons : \A j \in colons : k <= j
             IN  << SubSeq(s, i + 1, Len(s)), SubSeq(s, 1, i - 1) >>

\* listen.rsplitn(2, ':'): parts[0] is what follows the last colon, parts[1] what precedes it
RSplitN2(s) ==
    LET colons == {i \in 1..Len(s) : s[i] = ":"}
    IN  IF colons = {} THEN << s >>
        ELSE LET i == CHOOSE k \in colons : \A j \in colons : j <= k
             IN  << SubSeq(s, i + 1, Len(s)), SubSeq(s, 1, i - 1) >>

\* bind.starts_with('[') && bind.ends_with(']') => bind[1..bind.len() - 1]
StripBrackets(bind) ==
    IF Len(bind) > 0 /\ bind[1] = "[" /\ bind[Len(bind)] = "]"
    THEN SubSeq(bind, 2, Len(bind) - 1)
    ELSE bind

Any4 == <<"0", ".", "0", ".", "0", ".", "0">>
Any6 == <<":", ":">>
Loop4 == <<"1", "2", "7", ".", "0", ".", "0", ".", "1">>
Loop6 == <<":", ":", "1">>
Loop6Bracketed == <<"[", ":", ":", "1", "]">>

\* addresses that parse as an IpAddr and that the host can bind
ValidIps == {Any4, Any6, Loop4, Loop6}

\* one `listen` entry: Ok((bind, port)) or Err(ParsePort(listen))
ParseListen(listen) ==
    LET parts == RSplitN2(listen)
    IN  IF Len(parts) = 1
        THEN LET p == ParseU16(listen)
             IN  IF p.ok THEN [ok |-> TRUE, bind |-> Any6, port |-> p.val]
                 ELSE [ok |-> FALSE, bind |-> << >>, port |-> 0]
        ELSE LET p == ParseU16(parts[1])
             IN  IF p.ok THEN [ok |-> TRUE, bind |-> StripBrackets(parts[2]), port |-> p.val]
                 ELSE [ok |-> FALSE, bind |-> << >>, port |-> 0]

\* port_of_args overrides the configured port; None means 0.
\* An Option<u16> is << >> (None) or << p >> (Some(p)).
EffectivePort(c) ==
    LET port_option == IF c.port_of_args # << >> THEN c.port_of_args ELSE c.port
    IN  IF port_option = << >> THEN 0 ELSE port_option[1]

\* mutant: the default is pushed whenever `bind` is empty, whatever `listen` holds
BindPairs_DefaultIgnoresListen(c) ==
    IF c.bind # << >>
    THEN [i \in 1..Len(c.bind) |-> [bind |-> c.bind[i], port |-> EffectivePort(c)]]
    ELSE << [bind |-> Any4, port |-> EffectivePort(c)] >>

\* the pairs pushed from `bind`, or the 0.0.0.0 default when bind and listen are empty
BindPairs(c) ==
    IF c.bind # << >>
    THEN [i \in 1..Len(c.bind) |-> [bind |-> c.bind[i], port |-> EffectivePort(c)]]
    ELSE IF c.listen = << >>
         THEN << [bind |-> Any4, port |-> EffectivePort(c)] >>
         ELSE << >>

\* index of the first `listen` entry that fails to parse, 0 when all parse
FirstBadListen(c) ==
    LET bad == {i \in 1..Len(c.listen) : ~ParseListen(c.listen[i]).ok}
    IN  IF bad = {} THEN 0 ELSE CHOOSE i \in bad : \A j \in bad : i <= j

ListenPairs(c) ==
    [i \in 1..Len(c.listen) |->
        [bind |-> ParseListen(c.listen[i]).bind, port |-> ParseListen(c.listen[i]).port]]

ResolveListenBinds(c) == BindPairs(c) \o ListenPairs(c)

\* is_random_port starts true and is cleared by a non-zero port or listen port
ResolveIsRandomPort(c) ==
    /\ EffectivePort(c) = 0
    /\ \A i \in 1..Len(c.listen) : ParseListen(c.listen[i]).port = 0

\* reuse_port after `if is_random_port { reuse_port = false }`
ResolveReusePort(c) == c.reuse_port /\ ~ResolveIsRandomPort(c)

\* mutant: only the configured flag decides
ResolveSupportHealthCheck_ConfiguredOnly(c) == c.support_health_check

\* let support_health_check = is_random_port || reuse_port || support_health_check
ResolveSupportHealthCheck(c) ==
    ResolveIsRandomPort(c) \/ ResolveReusePort(c) \/ c.support_health_check

\* the address the readiness task probes: listen_binds[0] with the wildcards replaced
HealthIp(ip) ==
    IF ip = Any4 THEN Loop4
    ELSE IF ip = Any6 THEN Loop6Bracketed
    ELSE ip

HealthUrl(binds) == [ip |-> HealthIp(binds[1].bind), port |-> binds[1].port]

\* a GET of health_url can return a success status: the URL names a port a client
\* can connect to and the /health service was registered on the app
ProbeCanSucceed(binds, support) == HealthUrl(binds).port # 0 /\ support

----------------------------------------------------------------------------
(* Inputs *)

ListenV4 == Loop4 \o <<":", "8", "0", "8", "0">>
ListenV6 == Loop6Bracketed \o <<":", "9", "0", "9", "0">>
ListenPortOnly == <<"0">>
ListenBadPort == Loop4 \o <<":", "x">>
ListenBadIp == <<"x", ":", "8", "0">>

ListenStrings == {ListenV4, ListenV6, ListenPortOnly, ListenBadPort, ListenBadIp}

RECURSIVE SeqsUpTo(_, _)
SeqsUpTo(S, n) ==
    IF n = 0 THEN {<< >>}
    ELSE LET shorter == SeqsUpTo(S, n - 1)
         IN  shorter \cup {Append(q, x) : q \in shorter, x \in S}

PortOptions == {<< >>, << 0 >>, << 8080 >>}

Configs ==
    [bind : {<< >>, << Loop4 >>},
     port : PortOptions,
     port_of_args : {<< >>, << 8080 >>},
     listen : SeqsUpTo(ListenStrings, MaxListen),
     reuse_port : BOOLEAN,
     support_health_check : BOOLEAN]

NoConfig ==
    [bind |-> << >>, port |-> << >>, port_of_args |-> << >>, listen |-> << >>,
     reuse_port |-> FALSE, support_health_check |-> FALSE]

----------------------------------------------------------------------------
(* Processes and signals *)

Alive(st) == st \in {"running", "stopped", "stopping", "deleting"}

\* check_process(pid): the liveness probe of the process the PID file names
CheckProcess(pid) == pid = OldPid /\ Alive(oldProc)

\* mutant: an instruction outside the closed set falls back to the graceful stop
SignalOf_FallsBackToTerm(instr) ==
    CASE instr \in {"kill", "k"} -> "KILL"
      [] instr \in {"reload", "l"} -> "HUP"
      [] instr \in {"quit", "q"} -> "INT"
      [] OTHER -> "TERM"

\* the signal an instruction stands for; "invalid" outside the closed set
SignalOf(instr) ==
    CASE instr \in {"stop", "s"} -> "TERM"
      [] instr \in {"kill", "k"} -> "KILL"
      [] instr \in {"reload", "l"} -> "HUP"
      [] instr \in {"quit", "q"} -> "INT"
      [] OTHER -> "invalid"

\* what a delivered signal does to the old process
Deliver(sig, st) ==
    CASE sig \in {"TERM", "INT"} /\ st = "running" -> "stopping"
      [] sig = "KILL" /\ Alive(st) -> "dead"
      [] sig = "CONT" /\ st = "stopped" -> "running"
      [] OTHER -> st

\* outcomes of kill(2) on the old process: delivered, no such process, or refused
KillOutcomes == IF Alive(oldProc) THEN {"ok", "eperm"} ELSE {"esrch"}

\* a send fails unless the signal was delivered or the target is already gone
SendFailed(outcome) == outcome = "eperm"

\* a signal B sent, with whether the send succeeded and whether /health had passed
SentSignal(sig, by, outcome) ==
    [sig |-> sig, to |-> OldPid, by |-> by, ok |-> ~SendFailed(outcome),
     healthOk |-> healthOk]

smVars == << smResult, smErrArg, exitCode, watching, waiter, PID_FILE_GUARD >>
wsVars == << cfg, listen_binds, is_random_port, reuse_port, support_health_check,
             bindIdx, serverUp, wsResult, ready, healthPolls, healthOk, termPolls, hist >>
wsVarsButHist == << cfg, listen_binds, is_random_port, reuse_port, support_health_check,
                    bindIdx, serverUp, wsResult, ready, healthPolls, healthOk, termPolls >>
\* the state of the superseded implementation in main_fn, untouched by the one above
lcVars == << retries, waitResult, probe, rel >>
\* the state of the readiness wait taken alone and of the concurrent starters
ctVars == << readyWait, starter >>

\* no call of wait_for_web_server_ready is under way
NoWait == [phase |-> "idle"]

\* no second process has been launched
NoStarters == << >>

----------------------------------------------------------------------------
(* Initial state: B is about to call SignalManager::new *)

Init ==
    /\ signal_instruction \in Instructions
    /\ \E st \in {<<"absent", "none">>, <<OldPid, "running">>, <<"malformed", "none">>} :
          /\ pidFile = st[1]
          /\ oldProc = st[2]
    /\ pc = "sm_read"
    /\ old_pid = "None"
    /\ smResult = "none"
    /\ smErrArg = "none"
    /\ exitCode = << >>
    /\ signalsSent = {}
    /\ fileOps = {}
    /\ watching = FALSE
    /\ channel = "none"
    /\ senderArg = "none"
    /\ waiter = "none"
    /\ PID_FILE_GUARD = FALSE
    /\ cfg = NoConfig
    /\ listen_binds = << >>
    /\ is_random_port = FALSE
    /\ reuse_port = FALSE
    /\ support_health_check = FALSE
    /\ bindIdx = 0
    /\ serverUp = FALSE
    /\ wsResult = "none"
    /\ ready = "none"
    /\ healthPolls = 0
    /\ healthOk = FALSE
    /\ termPolls = 0
    /\ hist = [pre |-> FALSE, post |-> FALSE, bound |-> FALSE, bindWhileOldAlive |-> FALSE,
               kept |-> {}]
    /\ retries = 0
    /\ waitResult = << >>
    /\ probe = << >>
    /\ rel = [g \in Guards |-> "none"]
    /\ readyWait = NoWait
    /\ starter = NoStarters

----------------------------------------------------------------------------
(* The old process A *)

\* A dies without cleaning up; its PID file stays behind
OldCrash ==
    /\ oldProc = "running"
    /\ oldProc' = "dead"
    /\ UNCHANGED << signal_instruction, pidFile, pc, old_pid, signalsSent, fileOps,
                    channel, senderArg >>
    /\ UNCHANGED smVars
    /\ UNCHANGED wsVars
    /\ UNCHANGED lcVars
    /\ UNCHANGED ctVars

\* a PID file whose content is the PID of some process
HoldsPid(content) == content \notin {"absent", "malformed"}

\* mutant: the guard deletes whatever PID the file records
GuardOwns_AnyPid(content, pid) == HoldsPid(content)

\* `if let Some(pid) = pid_option && pid == process::id()`
GuardOwns(content, pid) == content = pid

\* what a release that read `content` adds to the record of files left in place
Kept(content, pid) ==
    IF HoldsPid(content) /\ ~GuardOwns(content, pid) THEN {pid} ELSE {}

\* A's guard release, first half: read_pid() and compare with its own pid
OldGuardRead ==
    /\ oldProc = "stopping"
    /\ oldProc' = IF GuardOwns(pidFile, OldPid) THEN "deleting" ELSE "dead"
    /\ hist' = [hist EXCEPT !.kept = @ \cup Kept(pidFile, OldPid)]
    /\ UNCHANGED << signal_instruction, pidFile, pc, old_pid, signalsSent, fileOps,
                    channel, senderArg >>
    /\ UNCHANGED smVars
    /\ UNCHANGED wsVarsButHist
    /\ UNCHANGED lcVars
    /\ UNCHANGED ctVars

\* A's guard release, second half: remove_file, then A is gone
OldGuardDelete ==
    /\ oldProc = "deleting"
    /\ pidFile' = "absent"
    /\ oldProc' = "dead"
    /\ UNCHANGED << signal_instruction, pc, old_pid, signalsSent, fileOps,
                    channel, senderArg >>
    /\ UNCHANGED smVars
    /\ UNCHANGED wsVars
    /\ UNCHANGED lcVars
    /\ UNCHANGED ctVars

----------------------------------------------------------------------------
(* SignalManager::new and parse_and_handle_signal_args *)

\* mutant: the payload of the superseded SignalManager (the executable's path)
NotFoundPidFileArg_AppPath == "app_file_path"

\* SignalManagerError::NotFoundPidFile(pid_file_path.clone())
NotFoundPidFileArg == "pid_file_path"

\* mutant: the payload of the superseded SignalManager (a path, not the pid)
ProgramIsRunningArg_AppPath(pid) == "app_file_path"

\* SignalManagerError::ProgramIsRunning(old_pid)
ProgramIsRunningArg(pid) == pid

\* mutant: `restart` hands the recorded pid on without probing its owner
RestartOldPid_Unchecked(pid) == pid

\* `restart`: Some(old_pid) when check_process(old_pid), None otherwise
RestartOldPid(pid) == IF CheckProcess(pid) THEN pid ELSE "None"

\* mutant: the control path returns to the caller instead of exiting
AfterSignalSent_Returns(instr) == "sm_setup"

\* after a successful send: `kill` deletes the PID file first, the others exit(0)
AfterSignalSent(instr) == IF instr = "kill" THEN "sm_delete" ELSE "exited"

\* let old_pid = read_pid(pid_file_path)?; then the branch on the instruction
SmReadPid ==
    /\ pc = "sm_read"
    /\ IF pidFile = "malformed"
       THEN /\ pc' = "sm_failed"
            /\ smResult' = "Pid"
            /\ smErrArg' = "pid_file_path"
            /\ UNCHANGED old_pid
       ELSE /\ old_pid' = IF pidFile = "absent" THEN "None" ELSE pidFile
            /\ IF signal_instruction \in {"restart", "start"}
               THEN /\ pc' = IF old_pid' = "None" THEN "sm_setup" ELSE "sm_check"
                    /\ UNCHANGED << smResult, smErrArg >>
               ELSE IF old_pid' = "None"
                    THEN /\ pc' = "sm_failed"
                         /\ smResult' = "NotFoundPidFile"
                         /\ smErrArg' = NotFoundPidFileArg
                    ELSE /\ pc' = "sm_send"
                         /\ UNCHANGED << smResult, smErrArg >>
    /\ UNCHANGED << signal_instruction, pidFile, oldProc, exitCode, signalsSent, fileOps,
                    watching, channel, senderArg, waiter, PID_FILE_GUARD >>
    /\ UNCHANGED wsVars
    /\ UNCHANGED lcVars
    /\ UNCHANGED ctVars

\* `start`/`restart` with Some(old_pid): check_process(old_pid)
SmCheckProcess ==
    /\ pc = "sm_check"
    /\ IF signal_instruction = "restart"
       THEN /\ old_pid' = RestartOldPid(old_pid)
            /\ pc' = "sm_setup"
            /\ UNCHANGED << smResult, smErrArg >>
       ELSE IF CheckProcess(old_pid)
            THEN /\ pc' = "sm_failed"
                 /\ smResult' = "ProgramIsRunning"
                 /\ smErrArg' = ProgramIsRunningArg(old_pid)
                 /\ UNCHANGED old_pid
            ELSE /\ pc' = "sm_setup"
                 /\ old_pid' = "None"
                 /\ UNCHANGED << smResult, smErrArg >>
    /\ UNCHANGED << signal_instruction, pidFile, oldProc, exitCode, signalsSent, fileOps,
                    watching, channel, senderArg, waiter, PID_FILE_GUARD >>
    /\ UNCHANGED wsVars
    /\ UNCHANGED lcVars
    /\ UNCHANGED ctVars

\* any other instruction with Some(old_pid): send_signal_by_instruction, then exit
SmSendSignal ==
    /\ pc = "sm_send"
    /\ LET sig == SignalOf(signal_instruction)
       IN  IF sig = "invalid"
           THEN /\ pc' = "exited"
                /\ exitCode' = << 1 >>
                /\ UNCHANGED << oldProc, signalsSent >>
           ELSE \E outcome \in KillOutcomes :
                /\ signalsSent' = signalsSent \cup {SentSignal(sig, "signal_manager", outcome)}
                /\ oldProc' = IF outcome = "ok" THEN Deliver(sig, oldProc) ELSE oldProc
                /\ IF SendFailed(outcome)
                   THEN /\ pc' = "exited"
                        /\ exitCode' = << 1 >>
                   ELSE /\ pc' = AfterSignalSent(signal_instruction)
                        /\ exitCode' = IF pc' = "exited" THEN << 0 >> ELSE exitCode
    /\ UNCHANGED << signal_instruction, pidFile, old_pid, smResult, smErrArg, fileOps,
                    watching, channel, senderArg, waiter, PID_FILE_GUARD >>
    /\ UNCHANGED wsVars
    /\ UNCHANGED lcVars
    /\ UNCHANGED ctVars

\* `kill` after a successful send: delete_pid_file, exit 1 when it fails, else exit 0
SmDeletePidFile ==
    /\ pc = "sm_delete"
    /\ \E deleted \in BOOLEAN :
          IF deleted
          THEN /\ pidFile' = "absent"
               /\ fileOps' = fileOps \cup {"delete"}
               /\ exitCode' = << 0 >>
          ELSE /\ exitCode' = << 1 >>
               /\ UNCHANGED << pidFile, fileOps >>
    /\ pc' = "exited"
    /\ UNCHANGED << signal_instruction, oldProc, old_pid, smResult, smErrArg, signalsSent,
                    watching, channel, senderArg, waiter, PID_FILE_GUARD >>
    /\ UNCHANGED wsVars
    /\ UNCHANGED lcVars
    /\ UNCHANGED ctVars

\* the rest of SignalManager::new: the oneshot channel, watch_signal(), the waiter task
SmSetup ==
    /\ pc = "sm_setup"
    /\ channel' = "open"
    /\ watching' = TRUE
    /\ waiter' = "waiting"
    /\ smResult' = "Ok"
    /\ pc' = "app"
    /\ UNCHANGED << signal_instruction, pidFile, oldProc, old_pid, smErrArg, exitCode,
                    signalsSent, fileOps, senderArg, PID_FILE_GUARD >>
    /\ UNCHANGED wsVars
    /\ UNCHANGED lcVars
    /\ UNCHANGED ctVars

----------------------------------------------------------------------------
(* start_web_server *)

\* B is running: neither process::exit nor the end of main has been reached
Running == pc \notin {"sm_failed", "exited", "ended"}

\* returning from start_web_server before the readiness task exists drops the sender
DropSender(ch) == IF ch = "open" THEN "sender_dropped" ELSE ch

\* the wait for a process's exit gives up: `retries += 1; if retries >= MAX_RETRIES`,
\* with the number of polls the timeout allows in place of MAX_RETRIES
ExitWaitTimedOut(polls) == polls + 1 >= MaxTermPolls

\* mutant: the old process is never stopped before binding
StopOldBeforeBind_Never(rnd, reuse) == FALSE

\* `if !is_random_port && !reuse_port`: the old process is stopped before binding
StopOldBeforeBind(rnd, reuse) == ~rnd /\ ~reuse

\* mutant: the old process is stopped after readiness whatever the port mode
StopOldAfterHealth_Always == TRUE

\* `if is_random_port || reuse_port`: the old process is stopped after readiness
StopOldAfterHealth == is_random_port \/ reuse_port

\* mutant: the `return` after the timeout log is missing
AfterReadyTimeout_FallsThrough == "send_started"

\* wait_for_web_server_ready returned Err: error!(..); return;
AfterReadyTimeout == "timed_out"

\* the call, the resolution of the listen set and the three derived flags
CallStartWebServer ==
    /\ pc = "app"
    /\ \E c \in Configs, s \in {"managed", "foreign_closed"} :
          /\ cfg' = c
          /\ senderArg' = s
          /\ IF FirstBadListen(c) # 0
             THEN /\ wsResult' = "ParsePort"
                  /\ pc' = "ws_returned"
                  /\ channel' = "sender_dropped"
                  /\ UNCHANGED << listen_binds, is_random_port, reuse_port,
                                  support_health_check >>
             ELSE /\ listen_binds' = ResolveListenBinds(c)
                  /\ is_random_port' = ResolveIsRandomPort(c)
                  /\ reuse_port' = ResolveReusePort(c)
                  /\ support_health_check' = ResolveSupportHealthCheck(c)
                  /\ pc' = IF StopOldBeforeBind(is_random_port', reuse_port')
                           THEN "ws_pre_term" ELSE "ws_bind"
                  /\ channel' = IF s = "managed" THEN channel ELSE "sender_dropped"
                  /\ UNCHANGED wsResult
    /\ UNCHANGED << signal_instruction, pidFile, oldProc, old_pid, signalsSent, fileOps,
                    bindIdx, serverUp, ready, healthPolls, healthOk, termPolls, hist >>
    /\ UNCHANGED smVars
    /\ UNCHANGED lcVars
    /\ UNCHANGED ctVars

\* exclusive port: terminate_old_web_server(old_pid, ..).await? before binding
PreTerminate ==
    /\ pc = "ws_pre_term"
    /\ IF old_pid = "None"
       THEN /\ pc' = "ws_bind"
            /\ UNCHANGED << oldProc, signalsSent, wsResult, channel, termPolls, hist >>
       ELSE \E outcome \in KillOutcomes :
            /\ hist' = [hist EXCEPT !.pre = TRUE]
            /\ signalsSent' = signalsSent \cup {SentSignal("TERM", "pre_bind", outcome)}
            /\ oldProc' = IF outcome = "ok" THEN Deliver("TERM", oldProc) ELSE oldProc
            /\ termPolls' = 0
            /\ IF SendFailed(outcome)
               THEN /\ wsResult' = "TerminateOldWebServer"
                    /\ pc' = "ws_returned"
                    /\ channel' = DropSender(channel)
               ELSE /\ pc' = "ws_pre_wait"
                    /\ UNCHANGED << wsResult, channel >>
    /\ UNCHANGED << signal_instruction, pidFile, old_pid, fileOps, senderArg, cfg,
                    listen_binds, is_random_port, reuse_port, support_health_check,
                    bindIdx, serverUp, ready, healthPolls, healthOk >>
    /\ UNCHANGED smVars
    /\ UNCHANGED lcVars
    /\ UNCHANGED ctVars

\* mutant: a timed-out wait is only logged and start_web_server goes on to bind
PreTermWait_OnlyLogged ==
    /\ pc = "ws_pre_wait"
    /\ IF ~Alive(oldProc) \/ ExitWaitTimedOut(termPolls)
       THEN /\ pc' = "ws_bind"
            /\ UNCHANGED termPolls
       ELSE /\ termPolls' = termPolls + 1
            /\ UNCHANGED pc
    /\ UNCHANGED << signal_instruction, pidFile, oldProc, old_pid, signalsSent, fileOps,
                    channel, senderArg, cfg, listen_binds, is_random_port, reuse_port,
                    support_health_check, bindIdx, serverUp, wsResult, ready,
                    healthPolls, healthOk, hist >>
    /\ UNCHANGED smVars
    /\ UNCHANGED lcVars
    /\ UNCHANGED ctVars

\* one liveness poll of the wait for the old process's exit, bounded by the timeout
PreTermWait ==
    /\ pc = "ws_pre_wait"
    /\ IF ~Alive(oldProc)
       THEN /\ pc' = "ws_bind"
            /\ UNCHANGED << wsResult, channel, termPolls >>
       ELSE IF ExitWaitTimedOut(termPolls)
            THEN /\ wsResult' = "TerminateOldWebServer"
                 /\ pc' = "ws_returned"
                 /\ channel' = DropSender(channel)
                 /\ UNCHANGED termPolls
            ELSE /\ termPolls' = termPolls + 1
                 /\ UNCHANGED << pc, wsResult, channel >>
    /\ UNCHANGED << signal_instruction, pidFile, oldProc, old_pid, signalsSent, fileOps,
                    senderArg, cfg, listen_binds, is_random_port, reuse_port,
                    support_health_check, bindIdx, serverUp, ready, healthPolls,
                    healthOk, hist >>
    /\ UNCHANGED smVars
    /\ UNCHANGED lcVars
    /\ UNCHANGED ctVars

\* one iteration of the bind loop: create_reusable_listener or http_server_bind
BindNext ==
    /\ pc = "ws_bind"
    /\ bindIdx < Len(listen_binds)
    /\ hist' = [hist EXCEPT !.bound = TRUE, !.bindWhileOldAlive = @ \/ Alive(oldProc)]
    /\ \E free \in BOOLEAN :
          IF free /\ listen_binds[bindIdx + 1].bind \in ValidIps
          THEN /\ bindIdx' = bindIdx + 1
               /\ UNCHANGED << pc, wsResult, channel >>
          ELSE /\ wsResult' = "Socket"
               /\ pc' = "ws_returned"
               /\ channel' = DropSender(channel)
               /\ UNCHANGED bindIdx
    /\ UNCHANGED << signal_instruction, pidFile, oldProc, old_pid, signalsSent, fileOps,
                    senderArg, cfg, listen_binds, is_random_port, reuse_port,
                    support_health_check, serverUp, ready, healthPolls, healthOk,
                    termPolls >>
    /\ UNCHANGED smVars
    /\ UNCHANGED lcVars
    /\ UNCHANGED ctVars

\* http_server.run() and tokio::spawn of the readiness task; then server.await
RunServer ==
    /\ pc = "ws_bind"
    /\ bindIdx = Len(listen_binds)
    /\ serverUp' = TRUE
    /\ ready' = "health_wait"
    /\ pc' = "serving"
    /\ UNCHANGED << signal_instruction, pidFile, oldProc, old_pid, signalsSent, fileOps,
                    channel, senderArg, cfg, listen_binds, is_random_port, reuse_port,
                    support_health_check, bindIdx, wsResult, healthPolls, healthOk,
                    termPolls, hist >>
    /\ UNCHANGED smVars
    /\ UNCHANGED lcVars
    /\ UNCHANGED ctVars

\* server.await ends: graceful stop on SIGINT/SIGTERM (Ok) or a runtime error
ServerStop ==
    /\ pc = "serving"
    /\ serverUp' = FALSE
    /\ \E r \in {"Ok", "Runtime"} : wsResult' = r
    /\ pc' = "ws_returned"
    /\ UNCHANGED << signal_instruction, pidFile, oldProc, old_pid, signalsSent, fileOps,
                    channel, senderArg, cfg, listen_binds, is_random_port, reuse_port,
                    support_health_check, bindIdx, ready, healthPolls, healthOk,
                    termPolls, hist >>
    /\ UNCHANGED smVars
    /\ UNCHANGED lcVars
    /\ UNCHANGED ctVars

----------------------------------------------------------------------------
(* The readiness task spawned by start_web_server *)

\* one probe of wait_for_web_server_ready: a success ends the wait, a failure counts
\* towards start_wait_timeout; on the timeout the task logs and returns
HealthProbe ==
    /\ Running
    /\ ready = "health_wait"
    /\ \E success \in BOOLEAN :
          IF success /\ serverUp /\ ProbeCanSucceed(listen_binds, support_health_check)
          THEN /\ healthOk' = TRUE
               /\ ready' = "send_started"
               /\ UNCHANGED << healthPolls, channel >>
          ELSE IF healthPolls + 1 >= MaxHealthPolls
               THEN /\ ready' = AfterReadyTimeout
                    /\ channel' = IF ready' = "timed_out" THEN DropSender(channel)
                                  ELSE channel
                    /\ UNCHANGED << healthPolls, healthOk >>
               ELSE /\ healthPolls' = healthPolls + 1
                    /\ UNCHANGED << ready, healthOk, channel >>
    /\ UNCHANGED << signal_instruction, pidFile, oldProc, pc, old_pid, signalsSent, fileOps,
                    senderArg, cfg, listen_binds, is_random_port, reuse_port,
                    support_health_check, bindIdx, serverUp, wsResult, termPolls, hist >>
    /\ UNCHANGED smVars
    /\ UNCHANGED lcVars
    /\ UNCHANGED ctVars

\* app_stated_sender.send(()): fails when the receiver is gone, and the task returns
SendStarted ==
    /\ Running
    /\ ready = "send_started"
    /\ IF senderArg = "managed"
       THEN /\ channel' = "sent"
            /\ ready' = IF StopOldAfterHealth THEN "post_term" ELSE "done"
       ELSE /\ ready' = "send_failed"
            /\ UNCHANGED channel
    /\ UNCHANGED << signal_instruction, pidFile, oldProc, pc, old_pid, signalsSent, fileOps,
                    senderArg, cfg, listen_binds, is_random_port, reuse_port,
                    support_health_check, bindIdx, serverUp, wsResult, healthPolls,
                    healthOk, termPolls, hist >>
    /\ UNCHANGED smVars
    /\ UNCHANGED lcVars
    /\ UNCHANGED ctVars

\* random or reused port: terminate_old_web_server(old_pid, ..) after readiness
PostTerminate ==
    /\ Running
    /\ ready = "post_term"
    /\ IF old_pid = "None"
       THEN /\ ready' = "done"
            /\ UNCHANGED << oldProc, signalsSent, termPolls, hist >>
       ELSE \E outcome \in KillOutcomes :
            /\ hist' = [hist EXCEPT !.post = TRUE]
            /\ signalsSent' = signalsSent \cup {SentSignal("TERM", "post_health", outcome)}
            /\ oldProc' = IF outcome = "ok" THEN Deliver("TERM", oldProc) ELSE oldProc
            /\ termPolls' = 0
            /\ ready' = IF SendFailed(outcome) THEN "post_failed" ELSE "post_wait"
    /\ UNCHANGED << signal_instruction, pidFile, pc, old_pid, fileOps, channel, senderArg,
                    cfg, listen_binds, is_random_port, reuse_port, support_health_check,
                    bindIdx, serverUp, wsResult, healthPolls, healthOk >>
    /\ UNCHANGED smVars
    /\ UNCHANGED lcVars
    /\ UNCHANGED ctVars

\* mutant: a timeout of the post-readiness wait is propagated and stops the server
PostTermWait_Propagates ==
    /\ Running
    /\ ready = "post_wait"
    /\ IF ~Alive(oldProc)
       THEN /\ ready' = "done"
            /\ UNCHANGED << termPolls, pc, serverUp, wsResult >>
       ELSE IF ExitWaitTimedOut(termPolls)
            THEN /\ ready' = "post_failed"
                 /\ pc' = IF pc = "serving" THEN "ws_returned" ELSE pc
                 /\ serverUp' = FALSE
                 /\ wsResult' = IF pc = "serving" THEN "TerminateOldWebServer" ELSE wsResult
                 /\ UNCHANGED termPolls
            ELSE /\ termPolls' = termPolls + 1
                 /\ UNCHANGED << ready, pc, serverUp, wsResult >>
    /\ UNCHANGED << signal_instruction, pidFile, oldProc, old_pid, signalsSent, fileOps,
                    channel, senderArg, cfg, listen_binds, is_random_port, reuse_port,
                    support_health_check, bindIdx, healthPolls, healthOk, hist >>
    /\ UNCHANGED smVars
    /\ UNCHANGED lcVars
    /\ UNCHANGED ctVars

\* one liveness poll of the post-readiness wait; a timeout is logged, the task returns
PostTermWait ==
    /\ Running
    /\ ready = "post_wait"
    /\ IF ~Alive(oldProc)
       THEN /\ ready' = "done"
            /\ UNCHANGED termPolls
       ELSE IF ExitWaitTimedOut(termPolls)
            THEN /\ ready' = "post_failed"
                 /\ UNCHANGED termPolls
            ELSE /\ termPolls' = termPolls + 1
                 /\ UNCHANGED ready
    /\ UNCHANGED << signal_instruction, pidFile, oldProc, pc, old_pid, signalsSent, fileOps,
                    channel, senderArg, cfg, listen_binds, is_random_port, reuse_port,
                    support_health_check, bindIdx, serverUp, wsResult, healthPolls,
                    healthOk, hist >>
    /\ UNCHANGED smVars
    /\ UNCHANGED lcVars
    /\ UNCHANGED ctVars

----------------------------------------------------------------------------
(* The Signal Manager's waiter task and its guard slot *)

\* mutant: the guard is acquired whatever the receiver returned
WaiterNext_IgnoresErr(ch) == "acquiring"

\* `if let Ok(_) = app_stated_receiver.await`: only a received 'started' goes on
WaiterNext(ch) == IF ch = "sent" THEN "acquiring" ELSE "done"

\* app_stated_receiver.await: Ok once 'started' was sent, Err once the sender is dropped
WaiterReceive ==
    /\ Running
    /\ waiter = "waiting"
    /\ channel \in {"sent", "sender_dropped"}
    /\ waiter' = WaiterNext(channel)
    /\ UNCHANGED << signal_instruction, pidFile, oldProc, pc, old_pid, smResult, smErrArg,
                    exitCode, signalsSent, fileOps, watching, channel, senderArg,
                    PID_FILE_GUARD >>
    /\ UNCHANGED wsVars
    /\ UNCHANGED lcVars
    /\ UNCHANGED ctVars

\* PidFileGuard::new(pid_file_path): writes B's pid into the PID file, or fails
WaiterAcquire ==
    /\ Running
    /\ waiter = "acquiring"
    /\ \E written \in BOOLEAN :
          IF written
          THEN /\ pidFile' = MyPid
               /\ fileOps' = fileOps \cup {"write"}
               /\ waiter' = "installing"
          ELSE /\ waiter' = "done"
               /\ UNCHANGED << pidFile, fileOps >>
    /\ UNCHANGED << signal_instruction, oldProc, pc, old_pid, smResult, smErrArg, exitCode,
                    signalsSent, watching, channel, senderArg, PID_FILE_GUARD >>
    /\ UNCHANGED wsVars
    /\ UNCHANGED lcVars
    /\ UNCHANGED ctVars

\* *PID_FILE_GUARD.write() = Some(pid_file_guard)
WaiterInstall ==
    /\ Running
    /\ waiter = "installing"
    /\ PID_FILE_GUARD' = TRUE
    /\ waiter' = "done"
    /\ UNCHANGED << signal_instruction, pidFile, oldProc, pc, old_pid, smResult, smErrArg,
                    exitCode, signalsSent, fileOps, watching, channel, senderArg >>
    /\ UNCHANGED wsVars
    /\ UNCHANGED lcVars
    /\ UNCHANGED ctVars

\* after start_web_server returned: SignalManager::drop empties the slot, which
\* drops the guard it held; the background task is not cancelled by the drop
SignalManagerDrop ==
    /\ pc = "ws_returned"
    /\ PID_FILE_GUARD' = FALSE
    /\ pc' = IF PID_FILE_GUARD THEN "guard_read" ELSE "dropped"
    /\ UNCHANGED << signal_instruction, pidFile, oldProc, old_pid, smResult, smErrArg,
                    exitCode, signalsSent, fileOps, watching, channel, senderArg, waiter >>
    /\ UNCHANGED wsVars
    /\ UNCHANGED lcVars
    /\ UNCHANGED ctVars

\* the guard's release, first half: read_pid() and compare with the own pid
GuardRead ==
    /\ pc = "guard_read"
    /\ pc' = IF GuardOwns(pidFile, MyPid) THEN "guard_delete" ELSE "ended"
    /\ hist' = [hist EXCEPT !.kept = @ \cup Kept(pidFile, MyPid)]
    /\ UNCHANGED << signal_instruction, pidFile, oldProc, old_pid, signalsSent, fileOps,
                    channel, senderArg >>
    /\ UNCHANGED smVars
    /\ UNCHANGED wsVarsButHist
    /\ UNCHANGED lcVars
    /\ UNCHANGED ctVars

\* the guard's release, second half: remove_file
GuardDelete ==
    /\ pc = "guard_delete"
    /\ pidFile' = "absent"
    /\ fileOps' = fileOps \cup {"delete"}
    /\ pc' = "ended"
    /\ UNCHANGED << signal_instruction, oldProc, old_pid, signalsSent, channel, senderArg >>
    /\ UNCHANGED smVars
    /\ UNCHANGED wsVars
    /\ UNCHANGED lcVars
    /\ UNCHANGED ctVars

\* the slot was empty at the drop: main returns and the runtime shuts down, which
\* ends the background task wherever it is
ProcessEnd ==
    /\ pc = "dropped"
    /\ pc' = "ended"
    /\ UNCHANGED << signal_instruction, pidFile, oldProc, old_pid, signalsSent, fileOps,
                    channel, senderArg >>
    /\ UNCHANGED smVars
    /\ UNCHANGED wsVars
    /\ UNCHANGED lcVars
    /\ UNCHANGED ctVars

----------------------------------------------------------------------------

Next ==
    \/ OldCrash
    \/ OldGuardRead
    \/ OldGuardDelete
    \/ SmReadPid
    \/ SmCheckProcess
    \/ SmSendSignal
    \/ SmDeletePidFile
    \/ SmSetup
    \/ CallStartWebServer
    \/ PreTerminate
    \/ PreTermWait
    \/ BindNext
    \/ RunServer
    \/ ServerStop
    \/ HealthProbe
    \/ SendStarted
    \/ PostTerminate
    \/ PostTermWait
    \/ WaiterReceive
    \/ WaiterAcquire
    \/ WaiterInstall
    \/ SignalManagerDrop
    \/ GuardRead
    \/ GuardDelete
    \/ ProcessEnd

Spec == Init /\ [][Next]_vars

----------------------------------------------------------------------------
(* The superseded implementation in main_fn: init_signal, send_signal_to_stop, *)
(* wait_for_process_exit and the guard returned by write_pid                   *)

\* const MAX_RETRIES: u32 = 20
MAX_RETRIES == 20

\* the variables only SignalManager and start_web_server use
robotechVars == << smResult, smErrArg, channel, senderArg, waiter, PID_FILE_GUARD >>

\* a panic!, a failed unwrap() or expect(): the process aborts with code 101
Panicked == << 101 >>

\* kill(Pid::from_raw(pid), Signal::SIGCONT).is_ok()
send_signal_to_check(outcome) == outcome = "ok"

\* the record of one send_signal_to_check
Probed(outcome, before, after) ==
    << [outcome |-> outcome, alive |-> send_signal_to_check(outcome),
        before |-> before, after |-> after] >>

\* the match of main_fn's send_signal: stop|s, kill|k, anything else panics
LocalSignalOf(instr) ==
    CASE instr \in {"stop", "s"} -> "TERM"
      [] instr \in {"kill", "k"} -> "KILL"
      [] OTHER -> "invalid"

\* a signal sent with kill(2) and what the call returned
LocalSent(sig, by, outcome) == [sig |-> sig, to |-> OldPid, by |-> by, outcome |-> outcome]

\* mutant: the bound is checked with `>` and allows one poll more
RetriesExhausted_OffByOne(n) == n > MAX_RETRIES

\* `if retries >= MAX_RETRIES`
RetriesExhausted(n) == n >= MAX_RETRIES

LocalInit ==
    /\ signal_instruction \in Instructions
    /\ \E st \in {<<"absent", "none">>, <<OldPid, "running">>, <<OldPid, "stopped">>,
                  <<OldPid, "dead">>, <<"malformed", "none">>} :
          /\ pidFile = st[1]
          /\ oldProc = st[2]
    /\ pc = "lc_read"
    /\ old_pid = "None"
    /\ smResult = "none"
    /\ smErrArg = "none"
    /\ exitCode = << >>
    /\ signalsSent = {}
    /\ fileOps = {}
    /\ watching = FALSE
    /\ channel = "none"
    /\ senderArg = "none"
    /\ waiter = "none"
    /\ PID_FILE_GUARD = FALSE
    /\ cfg = NoConfig
    /\ listen_binds = << >>
    /\ is_random_port = FALSE
    /\ reuse_port = FALSE
    /\ support_health_check = FALSE
    /\ bindIdx = 0
    /\ serverUp = FALSE
    /\ wsResult = "none"
    /\ ready = "none"
    /\ healthPolls = 0
    /\ healthOk = FALSE
    /\ termPolls = 0
    /\ hist = [pre |-> FALSE, post |-> FALSE, bound |-> FALSE, bindWhileOldAlive |-> FALSE,
               kept |-> {}]
    /\ retries = 0
    /\ waitResult = << >>
    /\ probe = << >>
    /\ rel = [g \in Guards |-> "none"]
    /\ readyWait = NoWait
    /\ starter = NoStarters

\* parse_and_handle_signal_args: read_pid() and the branch on the instruction.
\* read_pid unwraps the parse; the control branch expects Some(pid)
LcReadPid ==
    /\ pc = "lc_read"
    /\ IF pidFile = "malformed"
       THEN /\ pc' = "panicked"
            /\ exitCode' = Panicked
            /\ UNCHANGED old_pid
       ELSE IF pidFile = "absent"
            THEN /\ pc' = IF signal_instruction \in {"start", "restart"}
                          THEN "lc_write" ELSE "panicked"
                 /\ exitCode' = IF pc' = "panicked" THEN Panicked ELSE exitCode
                 /\ UNCHANGED old_pid
            ELSE /\ old_pid' = pidFile
                 /\ pc' = IF signal_instruction \in {"start", "restart"}
                          THEN "lc_check" ELSE "lc_send"
                 /\ UNCHANGED exitCode
    /\ UNCHANGED << signal_instruction, pidFile, oldProc, signalsSent, fileOps, watching >>
    /\ UNCHANGED robotechVars
    /\ UNCHANGED wsVars
    /\ UNCHANGED lcVars
    /\ UNCHANGED ctVars

\* `start`/`restart` with Some(pid): send_signal_to_check(pid); `start` panics on a
\* live owner, `restart` returns Some(pid) for a live owner and None otherwise
LcCheck ==
    /\ pc = "lc_check"
    /\ \E outcome \in KillOutcomes :
          /\ oldProc' = IF outcome = "ok" THEN Deliver("CONT", oldProc) ELSE oldProc
          /\ probe' = Probed(outcome, oldProc, oldProc')
          /\ IF signal_instruction = "restart"
             THEN /\ old_pid' = IF send_signal_to_check(outcome) THEN old_pid ELSE "None"
                  /\ pc' = "lc_write"
                  /\ UNCHANGED exitCode
             ELSE IF send_signal_to_check(outcome)
                  THEN /\ pc' = "panicked"
                       /\ exitCode' = Panicked
                       /\ UNCHANGED old_pid
                  ELSE /\ pc' = "lc_write"
                       /\ old_pid' = "None"
                       /\ UNCHANGED exitCode
    /\ UNCHANGED << signal_instruction, pidFile, signalsSent, fileOps, watching,
                    retries, waitResult, rel >>
    /\ UNCHANGED robotechVars
    /\ UNCHANGED wsVars
    /\ UNCHANGED ctVars

\* the control branch: send_signal(&signal, pid); every kill(2) error fails the
\* expect(), an unknown instruction panics, `stop` then exits with 0
LcSendSignal ==
    /\ pc = "lc_send"
    /\ LET sig == LocalSignalOf(signal_instruction)
       IN  IF sig = "invalid"
           THEN /\ pc' = "panicked"
                /\ exitCode' = Panicked
                /\ UNCHANGED << oldProc, signalsSent >>
           ELSE \E outcome \in KillOutcomes :
                /\ signalsSent' = signalsSent \cup {LocalSent(sig, "send_signal", outcome)}
                /\ oldProc' = IF outcome = "ok" THEN Deliver(sig, oldProc) ELSE oldProc
                /\ IF outcome # "ok"
                   THEN /\ pc' = "panicked"
                        /\ exitCode' = Panicked
                   ELSE IF sig = "KILL"
                        THEN /\ pc' = "lc_delete"
                             /\ UNCHANGED exitCode
                        ELSE /\ pc' = "exited"
                             /\ exitCode' = << 0 >>
    /\ UNCHANGED << signal_instruction, pidFile, old_pid, fileOps, watching >>
    /\ UNCHANGED robotechVars
    /\ UNCHANGED wsVars
    /\ UNCHANGED lcVars
    /\ UNCHANGED ctVars

\* `kill`|`k` after the send: delete_pid_file(), whose remove_file is unwrapped
LcDeletePidFile ==
    /\ pc = "lc_delete"
    /\ IF pidFile = "absent"
       THEN /\ pc' = "panicked"
            /\ exitCode' = Panicked
            /\ UNCHANGED << pidFile, fileOps >>
       ELSE /\ pidFile' = "absent"
            /\ fileOps' = fileOps \cup {"delete"}
            /\ pc' = "exited"
            /\ exitCode' = << 0 >>
    /\ UNCHANGED << signal_instruction, oldProc, old_pid, signalsSent, watching >>
    /\ UNCHANGED robotechVars
    /\ UNCHANGED wsVars
    /\ UNCHANGED lcVars
    /\ UNCHANGED ctVars

\* init_signal after the parse: write_pid() and watch_signal(). A second guard is
\* one more write_pid() by the application
write_pid ==
    /\ pc = "lc_write"
    /\ \E created \in BOOLEAN, second \in {"none", "held"} :
          IF created
          THEN /\ pidFile' = MyPid
               /\ fileOps' = fileOps \cup {"write"}
               /\ rel' = [g \in Guards |-> IF g = 1 THEN "held" ELSE second]
               /\ watching' = TRUE
               /\ pc' = "lc_app"
               /\ UNCHANGED exitCode
          ELSE /\ pc' = "panicked"
               /\ exitCode' = Panicked
               /\ UNCHANGED << pidFile, fileOps, rel, watching >>
    /\ UNCHANGED << signal_instruction, oldProc, old_pid, signalsSent,
                    retries, waitResult, probe >>
    /\ UNCHANGED robotechVars
    /\ UNCHANGED wsVars
    /\ UNCHANGED ctVars

\* send_signal_to_stop(old_pid): send_signal("stop", old_pid).expect(..), then the wait
send_signal_to_stop ==
    /\ pc = "lc_app"
    /\ IF old_pid = "None"
       THEN /\ pc' = "lc_run"
            /\ UNCHANGED << oldProc, signalsSent, exitCode, retries >>
       ELSE \E outcome \in KillOutcomes :
            /\ signalsSent' =
                  signalsSent \cup {LocalSent("TERM", "send_signal_to_stop", outcome)}
            /\ oldProc' = IF outcome = "ok" THEN Deliver("TERM", oldProc) ELSE oldProc
            /\ IF outcome # "ok"
               THEN /\ pc' = "panicked"
                    /\ exitCode' = Panicked
                    /\ UNCHANGED retries
               ELSE /\ pc' = "lc_wait"
                    /\ retries' = 0
                    /\ UNCHANGED exitCode
    /\ UNCHANGED << signal_instruction, pidFile, old_pid, fileOps, watching,
                    waitResult, probe, rel >>
    /\ UNCHANGED robotechVars
    /\ UNCHANGED wsVars
    /\ UNCHANGED ctVars

\* one turn of `while send_signal_to_check(pid)` in wait_for_process_exit: Ok when
\* the poll reports the process gone, Err once retries reaches MAX_RETRIES
wait_for_process_exit ==
    /\ pc = "lc_wait"
    /\ \E outcome \in KillOutcomes :
          /\ oldProc' = IF outcome = "ok" THEN Deliver("CONT", oldProc) ELSE oldProc
          /\ probe' = Probed(outcome, oldProc, oldProc')
          /\ IF ~send_signal_to_check(outcome)
             THEN /\ waitResult' = << "Ok" >>
                  /\ pc' = "lc_run"
                  /\ UNCHANGED retries
             ELSE /\ retries' = retries + 1
                  /\ IF RetriesExhausted(retries')
                     THEN /\ waitResult' = << "Err", old_pid >>
                          /\ pc' = "lc_teardown"
                     ELSE UNCHANGED << waitResult, pc >>
    /\ UNCHANGED << signal_instruction, pidFile, old_pid, exitCode, signalsSent, fileOps,
                    watching, rel >>
    /\ UNCHANGED robotechVars
    /\ UNCHANGED wsVars
    /\ UNCHANGED ctVars

\* the application runs until it is told to stop; its guards then go out of scope
LcRun ==
    /\ pc = "lc_run"
    /\ pc' = "lc_teardown"
    /\ UNCHANGED << signal_instruction, pidFile, oldProc, old_pid, exitCode, signalsSent,
                    fileOps, watching >>
    /\ UNCHANGED robotechVars
    /\ UNCHANGED wsVars
    /\ UNCHANGED lcVars
    /\ UNCHANGED ctVars

\* PidFileGuard::drop, read_pid: `if !pid_file_path.exists() { return None; }`
read_pid_exists(g) ==
    /\ pc = "lc_teardown"
    /\ rel[g] = "held"
    /\ rel' = [rel EXCEPT ![g] = IF pidFile = "absent" THEN "done" ELSE "opening"]
    /\ UNCHANGED << signal_instruction, pidFile, oldProc, pc, old_pid, exitCode, signalsSent,
                    fileOps, watching, retries, waitResult, probe >>
    /\ UNCHANGED robotechVars
    /\ UNCHANGED wsVars
    /\ UNCHANGED ctVars

\* read_pid: File::open(..).unwrap() and the unwrapped parse, then the comparison
\* with process::id() in delete_pid_file_if_my_process
read_pid_open(g) ==
    /\ pc = "lc_teardown"
    /\ rel[g] = "opening"
    /\ rel' = [rel EXCEPT ![g] = IF ~HoldsPid(pidFile) THEN "panicked"
                                 ELSE IF GuardOwns(pidFile, MyPid) THEN "owns"
                                 ELSE "done"]
    /\ hist' = [hist EXCEPT !.kept = @ \cup Kept(pidFile, MyPid)]
    /\ UNCHANGED << signal_instruction, pidFile, oldProc, pc, old_pid, exitCode, signalsSent,
                    fileOps, watching, retries, waitResult, probe >>
    /\ UNCHANGED robotechVars
    /\ UNCHANGED wsVarsButHist
    /\ UNCHANGED ctVars

\* delete_pid_file: std::fs::remove_file(pid_file_path).unwrap()
delete_pid_file(g) ==
    /\ pc = "lc_teardown"
    /\ rel[g] = "owns"
    /\ IF pidFile = "absent"
       THEN /\ rel' = [rel EXCEPT ![g] = "panicked"]
            /\ UNCHANGED << pidFile, fileOps >>
       ELSE /\ rel' = [rel EXCEPT ![g] = "deleted"]
            /\ pidFile' = "absent"
            /\ fileOps' = fileOps \cup {"delete"}
    /\ UNCHANGED << signal_instruction, oldProc, pc, old_pid, exitCode, signalsSent,
                    watching, retries, waitResult, probe >>
    /\ UNCHANGED robotechVars
    /\ UNCHANGED wsVars
    /\ UNCHANGED ctVars

\* every release is over: the process ends
LcEnd ==
    /\ pc = "lc_teardown"
    /\ \A g \in Guards : rel[g] \in {"none", "done", "deleted", "panicked"}
    /\ pc' = "ended"
    /\ exitCode' = IF \E g \in Guards : rel[g] = "panicked" THEN Panicked ELSE << 0 >>
    /\ UNCHANGED << signal_instruction, pidFile, oldProc, old_pid, signalsSent, fileOps,
                    watching >>
    /\ UNCHANGED robotechVars
    /\ UNCHANGED wsVars
    /\ UNCHANGED lcVars
    /\ UNCHANGED ctVars

LocalNext ==
    \/ OldCrash
    \/ OldGuardRead
    \/ OldGuardDelete
    \/ LcReadPid
    \/ LcCheck
    \/ LcSendSignal
    \/ LcDeletePidFile
    \/ write_pid
    \/ send_signal_to_stop
    \/ wait_for_process_exit
    \/ LcRun
    \/ \E g \in Guards : read_pid_exists(g)
    \/ \E g \in Guards : read_pid_open(g)
    \/ \E g \in Guards : delete_pid_file(g)
    \/ LcEnd

LocalSpec == LocalInit /\ [][LocalNext]_vars

\* the runtime keeps polling: the task of wait_for_process_exit is always resumed
LocalLive == LocalSpec /\ WF_vars(wait_for_process_exit)

----------------------------------------------------------------------------
(* Properties *)

StopKill == {"stop", "s", "kill", "k"}

\* the listen set was resolved: start_web_server got past the parsing
Resolved == listen_binds # << >>

Exclusive == Resolved /\ ~is_random_port /\ ~reuse_port
Shared == Resolved /\ (is_random_port \/ reuse_port)

\* start_web_server is over: it has returned and its readiness task will not move
RunOver ==
    /\ pc \in {"ws_returned", "guard_read", "guard_delete", "dropped", "ended"}
    /\ \/ ready \in {"none", "done", "timed_out", "send_failed", "post_failed"}
       \/ pc = "ended"

\* C1 as stated: in every finished run of start_web_server that resolved its listen
\* set and was given an old PID, exactly one of the pre-bind and the post-health
\* termination steps has executed, whatever binding, health wait and send did.
C1_ExactlyOneAlways ==
    (RunOver /\ Resolved /\ old_pid # "None") => (hist.pre # hist.post)

\* C1 amended: never both steps. With an exclusive port the pre-bind step has run
\* as soon as the flow is past it and the post-health step never runs; with a
\* random or reused port the pre-bind step never runs and the post-health step
\* runs exactly when every bind succeeded, /health passed and 'started' was sent.
C1_AtMostOneStep ==
    /\ ~(hist.pre /\ hist.post)
    /\ hist.pre => Exclusive /\ old_pid # "None"
    /\ hist.post =>
          /\ Shared /\ old_pid # "None"
          /\ bindIdx = Len(listen_binds)
          /\ healthOk
          /\ channel = "sent"
    /\ (Exclusive /\ old_pid # "None" /\ pc # "ws_pre_term") => hist.pre
    /\ (Shared /\ old_pid # "None" /\ ready \in {"post_wait", "post_failed", "done"})
          => hist.post
    /\ (Shared /\ RunOver /\ (bindIdx < Len(listen_binds) \/ ~healthOk \/ channel # "sent"))
          => ~hist.pre /\ ~hist.post

C1_Witness ==
    /\ old_pid = OldPid
    /\ Shared
    /\ hist.post /\ ~hist.pre
    /\ ready = "done"

\* C2: with an exclusive port, every bind call is made after the old process (if
\* any) was sent the termination signal by the pre-bind step and has exited; no
\* bind call is made while the old process is alive.
C2_ExclusiveHandover ==
    (Exclusive /\ hist.bound) =>
        /\ ~hist.bindWhileOldAlive
        /\ ~Alive(oldProc)
        /\ old_pid # "None" =>
              /\ hist.pre
              /\ \E sg \in signalsSent : sg.sig = "TERM" /\ sg.by = "pre_bind" /\ sg.ok

C2_Witness ==
    /\ Exclusive
    /\ old_pid = OldPid
    /\ hist.bound
    /\ bindIdx > 0

\* C3: with a random or reused port, every termination request start_web_server
\* sends to the old process is sent after a /health probe has returned success.
C3_SharedHandover ==
    /\ hist.post => healthOk
    /\ \A sg \in signalsSent :
          (Shared /\ sg.by \in {"pre_bind", "post_health"}) =>
              sg.healthOk /\ sg.by = "post_health"

C3_Witness ==
    /\ Shared
    /\ hist.post
    /\ \E sg \in signalsSent : sg.by = "post_health" /\ sg.sig = "TERM" /\ sg.healthOk

\* C4: 'started' is sent, and the waiter acquires the PID file for the new process,
\* only after a /health probe returned success; after a readiness timeout 'started'
\* is not sent and the PID file is not written for the new process.
C4_StartedAfterHealth ==
    /\ channel = "sent" => healthOk
    /\ (waiter \in {"acquiring", "installing"} \/ PID_FILE_GUARD
          \/ "write" \in fileOps \/ pidFile = MyPid)
          => healthOk /\ channel = "sent"
    /\ ready = "timed_out" =>
          /\ ~healthOk
          /\ channel # "sent"
          /\ "write" \notin fileOps
          /\ pidFile # MyPid
          /\ ~PID_FILE_GUARD

C4_Witness ==
    /\ healthOk
    /\ channel = "sent"
    /\ PID_FILE_GUARD
    /\ pidFile = MyPid

\* C5 as stated: once the readiness wait has timed out, start_web_server has ended
\* with StartWebServerTimeout and the new server is not serving.
C5_TimeoutIsFatal ==
    ready = "timed_out" => ~serverUp /\ wsResult = "StartWebServerTimeout"

\* C6: a failure or timeout of the post-readiness termination is only logged: the
\* step that fails leaves the server, the main flow, the result of start_web_server
\* and the delivered 'started' as they are, and start_web_server never returns
\* TerminateOldWebServer because of it.
C6_PostFailureOnlyLogged ==
    /\ [](ready = "post_failed" =>
            channel = "sent" /\ healthOk /\ wsResult # "TerminateOldWebServer")
    /\ [][(ready' = "post_failed" /\ ready # "post_failed") =>
            /\ serverUp' = serverUp
            /\ pc' = pc
            /\ wsResult' = wsResult
            /\ channel' = channel
            /\ waiter' = waiter]_vars

C6_Witness ==
    /\ ready = "post_failed"
    /\ serverUp
    /\ pc = "serving"
    /\ channel = "sent"

PresentAndAlive == pidFile = OldPid /\ Alive(oldProc)

C9_NotFoundPidFile ==
    /\ [](smResult = "NotFoundPidFile" =>
            /\ signal_instruction \notin {"start", "restart"}
            /\ pc = "sm_failed"
            /\ smErrArg = "pid_file_path"
            /\ signalsSent = {}
            /\ fileOps = {}
            /\ pidFile = "absent"
            /\ exitCode = << >>)
    /\ [][(pc = "sm_read" /\ pc' # pc /\ signal_instruction \in StopKill
             /\ pidFile = "absent") =>
            pc' = "sm_failed" /\ smResult' = "NotFoundPidFile"]_vars

C9_Witness ==
    /\ signal_instruction \in StopKill
    /\ smResult = "NotFoundPidFile"
    /\ pc = "sm_failed"

\* C10 as stated: for `stop`/`kill`, the process exits with code 0 exactly when the
\* signal was sent successfully and with 1 when the send failed.
C10_ExitCodeBySendOnly ==
    (signal_instruction \in StopKill /\ pc = "exited") =>
        (exitCode = << 0 >> <=> \E sg \in signalsSent : sg.ok)

\* C10 amended: for `stop`/`kill` with a PID file that is present and parses, the
\* process ends in process::exit inside the Signal Manager: code 1 when the send
\* failed or, for `kill`, when deleting the PID file afterwards failed, code 0
\* otherwise. It never returns to the caller: no listener, no PID file of its own,
\* no server.
C10_ControlPathExits ==
    /\ [](signal_instruction \in StopKill =>
            /\ pc \in {"sm_read", "sm_send", "sm_delete", "exited", "sm_failed"}
            /\ smResult \in {"none", "NotFoundPidFile", "Pid"}
            /\ ~watching /\ channel = "none" /\ waiter = "none"
            /\ "write" \notin fileOps /\ pidFile # MyPid
            /\ ~hist.bound /\ ~serverUp
            /\ pc = "exited" =>
                  exitCode = IF /\ \E sg \in signalsSent : sg.ok
                                /\ signal_instruction = "kill" => "delete" \in fileOps
                             THEN << 0 >> ELSE << 1 >>)
    /\ [][(signal_instruction \in StopKill /\ pc = "sm_read" /\ pc' # pc
             /\ pidFile = OldPid) =>
            pc' = "sm_send"]_vars
    /\ [][(signal_instruction \in StopKill /\ pc \in {"sm_send", "sm_delete"}
             /\ pc' # pc) =>
            pc' \in {"sm_delete", "exited"} /\ (pc' = "exited" => exitCode' # << >>)]_vars

C10_Witness ==
    /\ signal_instruction \in StopKill
    /\ pc = "exited"
    /\ exitCode = << 0 >>
    /\ \E sg \in signalsSent : sg.ok

----------------------------------------------------------------------------
(* The control instructions *)

\* C11 as stated: on `stop` the control process exits with code 0 only after the
\* owner of the PID file has been observed not alive.
C11_StopWaitsForExit ==
    (signal_instruction \in {"stop", "s"} /\ pc = "exited" /\ exitCode = << 0 >>)
        => ~Alive(oldProc)

\* C12 as stated: on `kill` and on its alias `k`, when the control process has
\* exited with code 0 the PID file has been deleted by it and is gone.
C12_KillDeletesPidFile ==
    (signal_instruction \in {"kill", "k"} /\ pc = "exited" /\ exitCode = << 0 >>)
        => (pidFile = "absent" /\ "delete" \in fileOps)

ClosedSet == {"start", "restart", "stop", "s", "kill", "k", "reload", "l", "quit", "q"}

----------------------------------------------------------------------------
(* The PID-file guard *)

\* C14: a guard release that finds another process's PID in the file leaves the
\* file in place with its content unchanged and is over; a release goes on to the
\* delete only when the PID it read is the releasing process's own.
C14_OwnershipCheck ==
    /\ [][(oldProc = "stopping" /\ oldProc' # oldProc /\ pidFile # OldPid) =>
            pidFile' = pidFile /\ oldProc' = "dead"]_vars
    /\ [][(pc = "guard_read" /\ pc' # pc /\ pidFile # MyPid) =>
            pidFile' = pidFile /\ pc' = "ended"]_vars
    /\ [][(oldProc' = "deleting" /\ oldProc # "deleting") => pidFile = OldPid]_vars
    /\ [][(pc' = "guard_delete" /\ pc # "guard_delete") => pidFile = MyPid]_vars
    /\ [](OldPid \in hist.kept => pidFile \in {MyPid, "absent"})

C14_Witness ==
    /\ OldPid \in hist.kept
    /\ oldProc = "dead"
    /\ pidFile = MyPid

\* C15 as stated: whatever the interleaving of the old process's guard release with
\* the new process's write of the PID file, the release never removes a file whose
\* content is the new process's PID.
C15_ReleaseSparesNewPid ==
    [][(oldProc = "deleting" /\ oldProc' = "dead" /\ pidFile = MyPid)
          => pidFile' = MyPid]_vars

\* C16 as stated: when the releases of a process's guards run one after the other or
\* at once, the file is deleted at most once and no release ends in a panic.
C16_IdempotentRelease ==
    /\ Cardinality({g \in Guards : rel[g] = "deleted"}) <= 1
    /\ \A g \in Guards : rel[g] # "panicked"

----------------------------------------------------------------------------
(* The process probe *)

\* C17 as stated: the liveness probe reports alive exactly when kill(2) succeeded or
\* answered 'permission denied', and leaves the probed process as it was.
C17_ProbeCorrect ==
    probe # << >> =>
        /\ probe[1].alive <=> probe[1].outcome \in {"ok", "eperm"}
        /\ probe[1].after = probe[1].before

\* C18 as stated: a graceful stop whose kill(2) answered 'no such process' is a
\* success: send_signal_to_stop does not fail on it and goes on to the wait.
C18_GoneIsSuccess ==
    (\E sg \in signalsSent : sg.by = "send_signal_to_stop" /\ sg.outcome = "esrch")
        => pc # "panicked"

\* C19: wait_for_process_exit always ends. Every poll either reports the process
\* gone, and the wait returns Ok at once, or counts one retry; the wait returns Err
\* naming the PID exactly when the MAX_RETRIES-th poll still reports it alive, so it
\* never polls more than MAX_RETRIES times.
C19_WaitTerminates ==
    /\ [](pc = "lc_wait" => retries < MAX_RETRIES /\ waitResult = << >>)
    /\ [](waitResult = << "Ok" >> => retries < MAX_RETRIES /\ ~probe[1].alive)
    /\ [](Len(waitResult) = 2 =>
            waitResult = << "Err", OldPid >> /\ retries = MAX_RETRIES /\ probe[1].alive)
    /\ [][(pc = "lc_wait" /\ << pc, retries >>' # << pc, retries >>) =>
            \/ /\ ~probe'[1].alive
               /\ waitResult' = << "Ok" >> /\ pc' = "lc_run" /\ retries' = retries
            \/ /\ probe'[1].alive /\ retries' = retries + 1 /\ retries' < MAX_RETRIES
               /\ waitResult' = << >> /\ pc' = "lc_wait"
            \/ /\ probe'[1].alive /\ retries' = retries + 1 /\ retries' = MAX_RETRIES
               /\ waitResult' = << "Err", OldPid >> /\ pc' = "lc_teardown"]_vars
    /\ (pc = "lc_wait") ~> (pc # "lc_wait")

C19_Witness ==
    /\ waitResult = << "Err", OldPid >>
    /\ retries = MAX_RETRIES
    /\ Alive(oldProc)
    /\ pc = "lc_teardown"

----------------------------------------------------------------------------
(* The listen set *)

\* start_web_server is past the resolution of the listen set
PastResolution ==
    /\ pc \in {"ws_pre_term", "ws_pre_wait", "ws_bind", "serving", "ws_returned",
               "guard_read", "guard_delete", "dropped", "ended"}
    /\ wsResult # "ParsePort"

\* C20: once the listen set is resolved it is never empty. With `bind` and `listen`
\* both empty it is the single pair (0.0.0.0, port), port being the command-line
\* port, else the configured one, else 0, and so (0.0.0.0, 0) with a random port
\* when no port is given at all; otherwise it is the `bind` addresses with that
\* port followed by one pair per `listen` entry, and nothing is synthesized.
C20_ListenDefault ==
    PastResolution =>
        LET port == IF cfg.port_of_args # << >> THEN cfg.port_of_args[1]
                    ELSE IF cfg.port # << >> THEN cfg.port[1] ELSE 0
            nb == Len(cfg.bind)
        IN  /\ Len(listen_binds) >= 1
            /\ (cfg.bind = << >> /\ cfg.listen = << >>) =>
                  listen_binds = << [bind |-> Any4, port |-> port] >>
            /\ (cfg.bind = << >> /\ cfg.listen = << >> /\ cfg.port = << >>
                  /\ cfg.port_of_args = << >>) =>
                  listen_binds = << [bind |-> Any4, port |-> 0] >> /\ is_random_port
            /\ (cfg.bind # << >> \/ cfg.listen # << >>) =>
                  /\ Len(listen_binds) = nb + Len(cfg.listen)
                  /\ \A i \in 1..nb :
                        listen_binds[i] = [bind |-> cfg.bind[i], port |-> port]
                  /\ \A i \in 1..Len(cfg.listen) :
                        /\ ParseListen(cfg.listen[i]).ok
                        /\ listen_binds[nb + i].port = ParseListen(cfg.listen[i]).port

C20_Witness ==
    /\ pc = "serving"
    /\ cfg.bind = << >> /\ cfg.listen = << >>
    /\ cfg.port = << >> /\ cfg.port_of_args = << >>
    /\ listen_binds = << [bind |-> Any4, port |-> 0] >>

\* C21: every `listen` entry resolves to the pair of what precedes its last colon,
\* without the brackets of an IPv6 address, and the port that follows it; a bare
\* port resolves to (::, port). listen = ["127.0.0.1:8080"] alone gives only
\* (127.0.0.1, 8080) with a non-random port, listen = ["[::1]:9090"] gives
\* (::1, 9090). ParsePort is returned only for an entry whose port does not parse.
C21_ListenEntries ==
    /\ PastResolution =>
          LET nb == Len(cfg.bind)
          IN  /\ \A i \in 1..Len(cfg.listen) :
                    /\ cfg.listen[i] = ListenV4 =>
                          listen_binds[nb + i] = [bind |-> Loop4, port |-> 8080]
                    /\ cfg.listen[i] = ListenV6 =>
                          listen_binds[nb + i] = [bind |-> Loop6, port |-> 9090]
                    /\ cfg.listen[i] = ListenPortOnly =>
                          listen_binds[nb + i] = [bind |-> Any6, port |-> 0]
                    /\ cfg.listen[i] = ListenBadIp =>
                          listen_binds[nb + i] = [bind |-> << "x" >>, port |-> 80]
              /\ (cfg.bind = << >> /\ cfg.listen = << ListenV4 >>) =>
                    /\ listen_binds = << [bind |-> Loop4, port |-> 8080] >>
                    /\ ~is_random_port
              /\ (cfg.bind = << >> /\ cfg.listen = << ListenV6 >>) =>
                    /\ listen_binds = << [bind |-> Loop6, port |-> 9090] >>
                    /\ ~is_random_port
    /\ wsResult = "ParsePort" <=>
          (\E i \in 1..Len(cfg.listen) : cfg.listen[i] = ListenBadPort)

C21_Witness ==
    /\ pc = "serving"
    /\ cfg.bind = << >>
    /\ cfg.listen = << ListenV6 >>
    /\ listen_binds = << [bind |-> Loop6, port |-> 9090] >>
    /\ ~is_random_port

\* C22 as stated: is_random_port is true exactly when some resolved pair has port 0,
\* reuse_port is the configured flag and not is_random_port, and so port reuse is
\* off whenever some resolved port is 0.
C22_RandomIffAnyZero ==
    PastResolution =>
        LET anyZero == \E i \in 1..Len(listen_binds) : listen_binds[i].port = 0
        IN  /\ is_random_port <=> anyZero
            /\ reuse_port <=> (cfg.reuse_port /\ ~is_random_port)
            /\ anyZero => ~reuse_port

\* C23: support_health_check is is_random_port or reuse_port or the configured
\* flag; with a random or reused port it is true, so whenever the old process is
\* stopped after the health gate, and whenever a probe has passed, /health was
\* registered on the new server.
C23_HealthCheckSupport ==
    /\ PastResolution =>
          (support_health_check <=>
              (is_random_port \/ reuse_port \/ cfg.support_health_check))
    /\ Shared => support_health_check
    /\ hist.post => support_health_check
    /\ healthOk => support_health_check

C23_Witness ==
    /\ Shared
    /\ ~cfg.support_health_check
    /\ support_health_check
    /\ healthOk
    /\ hist.post

\* C24 as stated: when some `listen` entry has an unparsable port or a malformed
\* address, start_web_server has not bound any socket and the process has not
\* written or deleted the PID file.
C24_ListenErrorBeforeBind ==
    (\E i \in 1..Len(cfg.listen) : cfg.listen[i] \in {ListenBadPort, ListenBadIp})
        => (bindIdx = 0 /\ fileOps = {})

\* C26 as stated: a `restart` whose old PID is A's and whose health check passed
\* ends, once A is gone and B has installed its guard, with a PID file that holds
\* B's PID, whatever the interleaving of A's shutdown with B's start-up.
C26_RestartEndsWithNewPid ==
    (/\ signal_instruction = "restart"
     /\ old_pid = OldPid
     /\ pc = "serving"
     /\ healthOk
     /\ PID_FILE_GUARD
     /\ oldProc = "dead")
        => pidFile = MyPid

C28_PolledHealthIsRegistered ==
    ready # "none" => support_health_check

\* C30 as stated: once the SignalManager has been dropped the PID_FILE_GUARD slot
\* is empty and stays empty, whatever the interleaving of the drop with the
\* 'started' signal.
C30_SlotStaysEmpty ==
    pc \in {"guard_read", "guard_delete", "dropped", "ended"} => ~PID_FILE_GUARD

----------------------------------------------------------------------------
(* wait_for_web_server_ready taken alone, with a clock                      *)

\* largest start_wait_timeout, in ticks of the clock
MaxWait == 4
\* largest start_retry_interval, in ticks
MaxInterval == 2
\* longest time a GET of the health URL takes to answer, in ticks
MaxLatency == 1

\* everything but the readiness wait and the concurrent starters
mainVars == << signal_instruction, pidFile, oldProc, pc, old_pid, signalsSent, fileOps,
               channel, senderArg, smVars, wsVars, lcVars >>

\* the process has not yet called SignalManager::new
BeforeNew ==
    /\ signal_instruction = "start"
    /\ pc = "sm_read"
    /\ old_pid = "None"
    /\ smResult = "none"
    /\ smErrArg = "none"
    /\ exitCode = << >>
    /\ signalsSent = {}
    /\ fileOps = {}
    /\ watching = FALSE
    /\ channel = "none"
    /\ senderArg = "none"
    /\ waiter = "none"
    /\ PID_FILE_GUARD = FALSE
    /\ cfg = NoConfig
    /\ listen_binds = << >>
    /\ is_random_port = FALSE
    /\ reuse_port = FALSE
    /\ support_health_check = FALSE
    /\ bindIdx = 0
    /\ serverUp = FALSE
    /\ wsResult = "none"
    /\ ready = "none"
    /\ healthPolls = 0
    /\ healthOk = FALSE
    /\ termPolls = 0
    /\ hist = [pre |-> FALSE, post |-> FALSE, bound |-> FALSE, bindWhileOldAlive |-> FALSE,
               kept |-> {}]
    /\ retries = 0
    /\ waitResult = << >>
    /\ probe = << >>
    /\ rel = [g \in Guards |-> "none"]

\* the health URLs the wait is called with
ReadyUrls ==
    {HealthUrl(<< [bind |-> Loop4, port |-> 8080] >>),
     HealthUrl(<< [bind |-> Any6, port |-> 9090] >>)}

\* what /health answers: a success status never, at every probe or at some
Endpoints == {"never", "always", "sometimes"}

\* response.status().is_success() of one GET, as the endpoint allows
ProbeOutcomes(endpoint) ==
    CASE endpoint = "never" -> {FALSE}
      [] endpoint = "always" -> {TRUE}
      [] OTHER -> BOOLEAN

\* WebServerError::StartWebServerTimeout(health_url.to_string())
StartWebServerTimeout(health_url) == << "Err", "StartWebServerTimeout", health_url >>

\* mutant: the deadline fires one tick before wait_timeout has elapsed
DeadlineReached_Early(now, wait_timeout) == now + 1 >= wait_timeout

\* timeout(wait_timeout, ..): the deadline has passed
DeadlineReached(now, wait_timeout) == now >= wait_timeout

\* the call: the loop starts with tokio::time::sleep(retry_interval)
ReadyInit ==
    /\ BeforeNew
    /\ pidFile = "absent"
    /\ oldProc = "none"
    /\ starter = NoStarters
    /\ \E url \in ReadyUrls, wt \in 0..MaxWait, ri \in 1..MaxInterval, e \in Endpoints :
          readyWait = [phase |-> "sleep", health_url |-> url, wait_timeout |-> wt,
                       retry_interval |-> ri, endpoint |-> e, now |-> 0, due |-> ri,
                       sent |-> << >>, succ |-> 0, result |-> << >>]

\* time passes while the sleep or the request is pending and the deadline is ahead
ReadyTick ==
    /\ readyWait.phase \in {"sleep", "request"}
    /\ readyWait.now < readyWait.due
    /\ ~DeadlineReached(readyWait.now, readyWait.wait_timeout)
    /\ readyWait' = [readyWait EXCEPT !.now = @ + 1]
    /\ UNCHANGED mainVars
    /\ UNCHANGED starter

\* the sleep is over: client.get(health_url).send()
ReadySend ==
    /\ readyWait.phase = "sleep"
    /\ readyWait.now = readyWait.due
    /\ \E latency \in 0..MaxLatency :
          readyWait' = [readyWait EXCEPT !.phase = "request",
                                         !.due = readyWait.now + latency,
                                         !.sent = Append(@, readyWait.now)]
    /\ UNCHANGED mainVars
    /\ UNCHANGED starter

\* the answer: a success status breaks the loop with Ok, anything else sleeps again
ReadyResponse ==
    /\ readyWait.phase = "request"
    /\ readyWait.now = readyWait.due
    /\ \E success \in ProbeOutcomes(readyWait.endpoint) :
          IF success
          THEN readyWait' = [readyWait EXCEPT !.phase = "returned",
                                              !.succ = @ + 1,
                                              !.result = << "Ok" >>]
          ELSE readyWait' = [readyWait EXCEPT !.phase = "sleep",
                                              !.due = readyWait.now +
                                                      readyWait.retry_interval]
    /\ UNCHANGED mainVars
    /\ UNCHANGED starter

\* the deadline of timeout(..) passes before the loop has ended: map_err
ReadyTimeout ==
    /\ readyWait.phase \in {"sleep", "request"}
    /\ DeadlineReached(readyWait.now, readyWait.wait_timeout)
    /\ readyWait' = [readyWait EXCEPT !.phase = "returned",
                                      !.result = StartWebServerTimeout(readyWait.health_url)]
    /\ UNCHANGED mainVars
    /\ UNCHANGED starter

ReadyNext ==
    \/ ReadyTick
    \/ ReadySend
    \/ ReadyResponse
    \/ ReadyTimeout

ReadySpec == ReadyInit /\ [][ReadyNext]_vars

\* the runtime's timer and the pending request always make progress
ReadyLive == ReadySpec /\ WF_vars(ReadyNext)

\* C25: wait_for_web_server_ready fails only with StartWebServerTimeout naming its
\* health URL and only when wait_timeout has elapsed; against an endpoint that
\* never answers with success it does fail; it returns Ok exactly at the first
\* successful probe; the first probe comes retry_interval after the call and each
\* further one at least retry_interval after the one before; the wait always ends.
C25_ReadinessWaitBound ==
    /\ [](readyWait.result \notin {<< >>, << "Ok" >>} =>
            /\ readyWait.result = StartWebServerTimeout(readyWait.health_url)
            /\ readyWait.now = readyWait.wait_timeout)
    /\ [](readyWait.now <= readyWait.wait_timeout)
    /\ [](readyWait.result = << "Ok" >> <=> readyWait.succ = 1)
    /\ [](readyWait.result = << "Ok" >> =>
            /\ readyWait.endpoint # "never"
            /\ readyWait.sent # << >>
            /\ readyWait.now <= readyWait.sent[Len(readyWait.sent)] + MaxLatency)
    /\ [](\A i \in 1..Len(readyWait.sent) :
            /\ i = 1 => readyWait.sent[i] = readyWait.retry_interval
            /\ i > 1 => /\ readyWait.sent[i] >= readyWait.sent[i - 1] + readyWait.retry_interval
                        /\ readyWait.sent[i] <= readyWait.sent[i - 1] + readyWait.retry_interval
                                                  + MaxLatency)
    /\ (readyWait.endpoint = "never") ~>
            (readyWait.result = StartWebServerTimeout(readyWait.health_url))
    /\ <>(readyWait.phase = "returned")

C25_Witness ==
    /\ readyWait.phase = "returned"
    /\ readyWait.endpoint = "never"
    /\ readyWait.retry_interval = 1
    /\ Len(readyWait.sent) >= 2
    /\ readyWait.result = StartWebServerTimeout(readyWait.health_url)
    /\ readyWait.now = readyWait.wait_timeout

----------------------------------------------------------------------------
(* Two processes launched with `start` at the same time on one PID file      *)

\* the pid of the second process
OtherPid == "pidC"

Starters == {MyPid, OtherPid}

\* a starter runs until SignalManager::new fails or its main returns
StarterAlive(s) == starter[s].pc \notin {"sm_failed", "ended"}

\* check_process(pid), the pid being a starter's or the old process's
StarterCheckProcess(pid) ==
    IF pid \in Starters THEN StarterAlive(pid) ELSE CheckProcess(pid)

\* a starter for which parse_and_handle_signal_args returned Ok and that is running
Proceeded(s) == starter[s].smResult = "Ok" /\ StarterAlive(s)

\* what a race leaves alone besides the PID file, the old process and the starters
raceVars ==
    << signal_instruction, pc, old_pid, signalsSent, fileOps, channel, senderArg,
       smVars, wsVars, lcVars, readyWait >>

RaceInit ==
    /\ BeforeNew
    /\ \E st \in {<<"absent", "none">>, <<OldPid, "running">>, <<OldPid, "dead">>,
                  <<"malformed", "none">>} :
          /\ pidFile = st[1]
          /\ oldProc = st[2]
    /\ readyWait = NoWait
    /\ starter = [s \in Starters |->
                    [pc |-> "sm_read", old_pid |-> "None", smResult |-> "none",
                     guard |-> "none"]]

\* let old_pid = read_pid(pid_file_path)?
StReadPid(s) ==
    /\ starter[s].pc = "sm_read"
    /\ starter' =
          [starter EXCEPT ![s] =
              IF pidFile = "malformed"
              THEN [@ EXCEPT !.pc = "sm_failed", !.smResult = "Pid"]
              ELSE IF pidFile = "absent"
                   THEN [@ EXCEPT !.pc = "sm_setup"]
                   ELSE [@ EXCEPT !.pc = "sm_check", !.old_pid = pidFile]]
    /\ UNCHANGED << pidFile, oldProc >>
    /\ UNCHANGED raceVars

\* `start` with Some(old_pid): check_process(old_pid), ProgramIsRunning if it lives
StCheckProcess(s) ==
    /\ starter[s].pc = "sm_check"
    /\ starter' =
          [starter EXCEPT ![s] =
              IF StarterCheckProcess(starter[s].old_pid)
              THEN [@ EXCEPT !.pc = "sm_failed", !.smResult = "ProgramIsRunning"]
              ELSE [@ EXCEPT !.pc = "sm_setup", !.old_pid = "None"]]
    /\ UNCHANGED << pidFile, oldProc >>
    /\ UNCHANGED raceVars

\* the channel, watch_signal() and the spawned task; new returns Ok and the caller
\* goes on to start_web_server
StSetup(s) ==
    /\ starter[s].pc = "sm_setup"
    /\ starter' = [starter EXCEPT ![s] = [@ EXCEPT !.pc = "starting", !.smResult = "Ok"]]
    /\ UNCHANGED << pidFile, oldProc >>
    /\ UNCHANGED raceVars

\* start_web_server: it binds, serves and sends 'started' after the health check,
\* or it returns an error and main ends
StStartWebServer(s) ==
    /\ starter[s].pc = "starting"
    /\ \E started \in BOOLEAN :
          starter' = [starter EXCEPT ![s] =
                         [@ EXCEPT !.pc = IF started THEN "acquiring" ELSE "ended"]]
    /\ UNCHANGED << pidFile, oldProc >>
    /\ UNCHANGED raceVars

\* the spawned task after 'started': PidFileGuard::new writes the starter's pid and
\* the guard is installed; a failure is dropped silently
StAcquire(s) ==
    /\ starter[s].pc = "acquiring"
    /\ \E written \in BOOLEAN :
          IF written
          THEN /\ pidFile' = s
               /\ starter' = [starter EXCEPT ![s] =
                                 [@ EXCEPT !.pc = "serving", !.guard = "held"]]
          ELSE /\ starter' = [starter EXCEPT ![s] = [@ EXCEPT !.pc = "serving"]]
               /\ UNCHANGED pidFile
    /\ UNCHANGED oldProc
    /\ UNCHANGED raceVars

\* the server stops and SignalManager::drop empties the slot
StDrop(s) ==
    /\ starter[s].pc = "serving"
    /\ starter' = [starter EXCEPT ![s] =
                      [@ EXCEPT !.pc = IF starter[s].guard = "held"
                                       THEN "guard_read" ELSE "ended"]]
    /\ UNCHANGED << pidFile, oldProc >>
    /\ UNCHANGED raceVars

\* the guard's release, first half: read_pid() and compare with the own pid
StGuardRead(s) ==
    /\ starter[s].pc = "guard_read"
    /\ starter' = [starter EXCEPT ![s] =
                      [@ EXCEPT !.pc = IF GuardOwns(pidFile, s)
                                       THEN "guard_delete" ELSE "ended",
                                !.guard = "released"]]
    /\ UNCHANGED << pidFile, oldProc >>
    /\ UNCHANGED raceVars

\* the guard's release, second half: remove_file
StGuardDelete(s) ==
    /\ starter[s].pc = "guard_delete"
    /\ pidFile' = "absent"
    /\ starter' = [starter EXCEPT ![s] = [@ EXCEPT !.pc = "ended"]]
    /\ UNCHANGED oldProc
    /\ UNCHANGED raceVars

RaceNext ==
    \/ OldCrash
    \/ \E s \in Starters : StReadPid(s)
    \/ \E s \in Starters : StCheckProcess(s)
    \/ \E s \in Starters : StSetup(s)
    \/ \E s \in Starters : StStartWebServer(s)
    \/ \E s \in Starters : StAcquire(s)
    \/ \E s \in Starters : StDrop(s)
    \/ \E s \in Starters : StGuardRead(s)
    \/ \E s \in Starters : StGuardDelete(s)

StartRace == RaceInit /\ [][RaceNext]_vars

\* C29 as stated: of two processes launched with `start` on the same PID file, at
\* most one passes the conflicting-instance check and runs on, whatever the
\* interleaving of their checks and their PID-file writes.
C29_AtMostOneProceeds ==
    Cardinality({s \in Starters : Proceeded(s)}) <= 1

====
